---------------------------- MODULE Spec2Model ----------------------------
(***************************************************************************)
(* Model of the startup-funding pipeline:                                  *)
(*   scripts/clean_data.py  (clean_amount, main)                           *)
(*   scripts/analyze.py     (main)                                         *)
(*   app.py                 (the Streamlit script, top to bottom)          *)
(*                                                                         *)
(* Text is a sequence of one-character strings.  A cell of a data frame    *)
(* is a tagged record: Str(s) text, NaN / NaT / NA missing values, a       *)
(* float, a timestamp.  Floats are exact decimals m * 10^e (binary         *)
(* rounding of IEEE doubles is not modelled).                              *)
(***************************************************************************)
EXTENDS Integers, Sequences, FiniteSets, TLC

(***************************************************************************)
(* Characters and Python's str methods                                     *)
(***************************************************************************)

\* The characters the model uses, in code-point order.
CodePoints ==
    << " ", "$", "+", ",", "-", ".", "/",
       "0", "1", "2", "3", "4", "5", "6", "7", "8", "9", ":",
       "A", "B", "C", "D", "E", "F", "G", "H", "I", "J", "K", "L", "M",
       "N", "O", "P", "Q", "R", "S", "T", "U", "V", "W", "X", "Y", "Z",
       "a", "b", "c", "d", "e", "f", "g", "h", "i", "j", "k", "l", "m",
       "n", "o", "p", "q", "r", "s", "t", "u", "v", "w", "x", "y", "z" >>

UpperLetters ==
    << "A", "B", "C", "D", "E", "F", "G", "H", "I", "J", "K", "L", "M",
       "N", "O", "P", "Q", "R", "S", "T", "U", "V", "W", "X", "Y", "Z" >>

LowerLetters ==
    << "a", "b", "c", "d", "e", "f", "g", "h", "i", "j", "k", "l", "m",
       "n", "o", "p", "q", "r", "s", "t", "u", "v", "w", "x", "y", "z" >>

DigitChars == << "0", "1", "2", "3", "4", "5", "6", "7", "8", "9" >>

Range(f) == { f[i] : i \in DOMAIN f }

IndexOf(c, seq) == CHOOSE i \in DOMAIN seq : seq[i] = c

Ord(c) == IndexOf(c, CodePoints)

IsUpper(c) == c \in Range(UpperLetters)
IsLower(c) == c \in Range(LowerLetters)
IsAlpha(c) == IsUpper(c) \/ IsLower(c)
IsDigit(c) == c \in Range(DigitChars)
IsSpace(c) == c = " "

UpperChar(c) == IF IsLower(c) THEN UpperLetters[IndexOf(c, LowerLetters)] ELSE c
LowerChar(c) == IF IsUpper(c) THEN LowerLetters[IndexOf(c, UpperLetters)] ELSE c

\* str.upper() / str.lower()
Upper(s) == [i \in DOMAIN s |-> UpperChar(s[i])]
Lower(s) == [i \in DOMAIN s |-> LowerChar(s[i])]

\* str.title(): a letter that follows a non-letter is upper-cased, every
\* other letter is lower-cased.
Title(s) ==
    [i \in DOMAIN s |->
        IF i = 1 \/ ~IsAlpha(s[i - 1]) THEN UpperChar(s[i]) ELSE LowerChar(s[i])]

\* str.replace(c, '')
RECURSIVE RemoveChar(_, _)
RemoveChar(s, c) ==
    IF s = << >> THEN << >>
    ELSE IF Head(s) = c THEN RemoveChar(Tail(s), c)
    ELSE << Head(s) >> \o RemoveChar(Tail(s), c)

RECURSIVE LStrip(_)
LStrip(s) ==
    IF s # << >> /\ IsSpace(Head(s)) THEN LStrip(Tail(s)) ELSE s

RECURSIVE RStrip(_)
RStrip(s) ==
    IF s # << >> /\ IsSpace(s[Len(s)]) THEN RStrip(SubSeq(s, 1, Len(s) - 1)) ELSE s

\* str.strip()
Strip(s) == RStrip(LStrip(s))

\* str.split(sep): the pieces between the separators, empty pieces kept.
RECURSIVE SplitAcc(_, _, _)
SplitAcc(s, sep, cur) ==
    IF s = << >> THEN << cur >>
    ELSE IF Head(s) = sep THEN << cur >> \o SplitAcc(Tail(s), sep, << >>)
    ELSE SplitAcc(Tail(s), sep, Append(cur, Head(s)))

Split(s, sep) == SplitAcc(s, sep, << >>)

\* Python's ordering of two strings (by code point, a prefix first).
RECURSIVE StrLess(_, _)
StrLess(s, t) ==
    IF t = << >> THEN FALSE
    ELSE IF s = << >> THEN TRUE
    ELSE IF Head(s) = Head(t) THEN StrLess(Tail(s), Tail(t))
    ELSE Ord(Head(s)) < Ord(Head(t))

(***************************************************************************)
(* Cell values                                                             *)
(***************************************************************************)

Str(s) == [k |-> "str", s |-> s]
NaN == [k |-> "nan"]        \* float('nan'), and read_csv's missing value
NaT == [k |-> "nat"]        \* to_datetime's missing value
NA == [k |-> "na"]          \* pd.NA
Inf(neg) == [k |-> "inf", neg |-> neg]

\* pandas' isna(): dropna drops NaN, NaT, pd.NA and None alike.
IsNA(v) == v.k \in {"nan", "nat", "na"}

RECURSIVE Pow10(_)
Pow10(n) == IF n = 0 THEN 1 ELSE 10 * Pow10(n - 1)

\* The decimal m * 10^e, normalised: m carries no factor 10, zero is 0 * 10^0.
RECURSIVE Num(_, _)
Num(m, e) ==
    IF m = 0 THEN [k |-> "num", m |-> 0, e |-> 0]
    ELSE IF m % 10 = 0 THEN Num(m \div 10, e + 1)
    ELSE [k |-> "num", m |-> m, e |-> e]

Timestamp(y, m, d) == [k |-> "ts", y |-> y, m |-> m, d |-> d]

(***************************************************************************)
(* Python's float(str)                                                     *)
(***************************************************************************)

AllDigits(s) == \A i \in DOMAIN s : IsDigit(s[i])

RECURSIVE DigitsVal(_)
DigitsVal(s) ==
    IF s = << >> THEN 0
    ELSE 10 * DigitsVal(SubSeq(s, 1, Len(s) - 1)) + (IndexOf(s[Len(s)], DigitChars) - 1)

HasSign(s) == s # << >> /\ Head(s) \in {"+", "-"}
Unsigned(s) == IF HasSign(s) THEN Tail(s) ELSE s
IsNeg(s) == s # << >> /\ Head(s) = "-"

\* The position of the exponent marker of a numeral, 0 when it has none.
ExpPos(s) ==
    IF \E i \in DOMAIN s : s[i] \in {"e", "E"}
    THEN CHOOSE i \in DOMAIN s : s[i] \in {"e", "E"} /\ \A j \in 1..(i - 1) : s[j] \notin {"e", "E"}
    ELSE 0

\* mantissa: digits [. digits] | . digits, at least one digit
MantissaOK(s) ==
    LET parts == Split(s, ".")
    IN  /\ Len(parts) \in {1, 2}
        /\ \A i \in DOMAIN parts : AllDigits(parts[i])
        /\ \E i \in DOMAIN parts : parts[i] # << >>

\* exponent: [sign] digits, at least one digit
ExponentOK(s) == Unsigned(s) # << >> /\ AllDigits(Unsigned(s))

\* float(s): the value, or ValueError.  Leading and trailing whitespace is
\* ignored; an optional sign; inf, infinity, nan in any case; or a decimal
\* numeral with an optional exponent.
ValueError == [k |-> "ValueError"]

Float(s0) ==
    LET s    == Strip(s0)
        body == Unsigned(s)
        neg  == IsNeg(s)
        low  == Lower(body)
        p    == ExpPos(body)
        mant == IF p = 0 THEN body ELSE SubSeq(body, 1, p - 1)
        expo == IF p = 0 THEN << >> ELSE SubSeq(body, p + 1, Len(body))
        parts == Split(mant, ".")
        frac == IF Len(parts) = 2 THEN parts[2] ELSE << >>
        digs == parts[1] \o frac
        ev   == IF p = 0 THEN 0
                ELSE IF IsNeg(expo) THEN 0 - DigitsVal(Unsigned(expo))
                ELSE DigitsVal(Unsigned(expo))
        mv   == IF neg THEN 0 - DigitsVal(digs) ELSE DigitsVal(digs)
    IN  IF low \in { <<"i", "n", "f">>, <<"i", "n", "f", "i", "n", "i", "t", "y">> }
        THEN Inf(neg)
        ELSE IF low = <<"n", "a", "n">> THEN NaN
        ELSE IF MantissaOK(mant) /\ (p = 0 \/ ExponentOK(expo))
        THEN Num(mv, ev - Len(frac))
        ELSE ValueError

\* x * 1e6 for a float x
\* The multiplication with a thousand in place of a million.
TimesThousand(x) ==
    IF x.k = "num" THEN Num(x.m, x.e + 3) ELSE x

TimesMillion(x) ==
    IF x.k = "num" THEN Num(x.m, x.e + 6) ELSE x

\* str(val) of a cell: the text itself, 'nan' for a missing value.
PyStr(val) == IF val.k = "str" THEN val.s ELSE <<"n", "a", "n">>

EndsWith(s, c) == s # << >> /\ s[Len(s)] = c

\* clean_amount(val): a numeric USD amount, or pd.NA when anything raises.
clean_amount(val) ==
    LET s == RemoveChar(RemoveChar(PyStr(val), ","), "$")
        r == IF EndsWith(Upper(s), "M")
             THEN (LET f == Float(SubSeq(s, 1, Len(s) - 1))
                   IN  IF f = ValueError THEN ValueError ELSE TimesMillion(f))
             ELSE Float(s)
    IN  IF r = ValueError THEN NA ELSE r

(***************************************************************************)
(* Data frames and CSV files                                               *)
(***************************************************************************)

\* A CSV file is NoFile (absent) or [cols, rows]: the header's column names
\* and the rows, each a function from the column names to cells.  A frame in
\* memory has the same shape.
NoFile == [k |-> "nofile"]

Frame(cols, rows) == [k |-> "frame", cols |-> cols, rows |-> rows]

\* The strings read_csv recognises as missing values by default.
NA_VALUES ==
    { <<>>,
      <<"#", "N", "/", "A">>,
      <<"#", "N", "/", "A", " ", "N", "/", "A">>,
      <<"#", "N", "A">>,
      <<"-", "1", ".", "#", "I", "N", "D">>,
      <<"-", "1", ".", "#", "Q", "N", "A", "N">>,
      <<"-", "N", "a", "N">>,
      <<"-", "n", "a", "n">>,
      <<"1", ".", "#", "I", "N", "D">>,
      <<"1", ".", "#", "Q", "N", "A", "N">>,
      <<"<", "N", "A", ">">>,
      <<"N", "/", "A">>,
      <<"N", "A">>,
      <<"N", "U", "L", "L">>,
      <<"N", "a", "N">>,
      <<"N", "o", "n", "e">>,
      <<"n", "/", "a">>,
      <<"n", "a", "n">>,
      <<"n", "u", "l", "l">> }

\* read_csv's reading of one cell: missing-value text becomes NaN.  A cell
\* that to_csv wrote from a float or a timestamp reads back as that value.
ReadCell(v) == IF v.k = "str" /\ v.s \in NA_VALUES THEN NaN ELSE v

\* pd.read_csv(path)
read_csv(file) ==
    Frame(file.cols, [i \in DOMAIN file.rows |->
                        [c \in file.cols |-> ReadCell(file.rows[i][c])]])

\* to_csv's writing of one cell: a missing value is written as empty text.
WriteCell(v) == IF IsNA(v) THEN Str(<< >>) ELSE v

\* df.to_csv(path, index=False)
to_csv(df) ==
    Frame(df.cols, [i \in DOMAIN df.rows |->
                        [c \in df.cols |-> WriteCell(df.rows[i][c])]])

\* The dtype read_csv infers for a column: float64 when the frame has rows
\* and every cell is missing or numeric, object otherwise.  The .str
\* accessor raises AttributeError on a column that is not object.
IsNumericCell(v) ==
    \/ v.k \in {"nan", "num", "inf"}
    \/ v.k = "str" /\ Float(v.s) # ValueError

IsObjectColumn(df, c) ==
    \/ df.rows = << >>
    \/ \E i \in DOMAIN df.rows : ~IsNumericCell(df.rows[i][c])

\* df[c] = df[c].map(f)
MapColumn(df, c, f(_)) ==
    Frame(df.cols, [i \in DOMAIN df.rows |-> [df.rows[i] EXCEPT ![c] = f(@)]])

\* df[c] = f(row) for a new or existing column c
AssignColumn(df, c, f(_)) ==
    Frame(df.cols \cup {c},
          [i \in DOMAIN df.rows |->
              [d \in df.cols \cup {c} |->
                  IF d = c THEN f(df.rows[i]) ELSE df.rows[i][d]]])

\* df.dropna(subset=...)
dropna(df, subset) ==
    LET Complete(row) == \A c \in subset : ~IsNA(row[c])
    IN  Frame(df.cols, SelectSeq(df.rows, Complete))

(***************************************************************************)
(* Dates                                                                   *)
(***************************************************************************)

IsLeap(y) == (y % 4 = 0 /\ y % 100 # 0) \/ y % 400 = 0

DaysInMonth(y, m) ==
    IF m = 2 THEN (IF IsLeap(y) THEN 29 ELSE 28)
    ELSE IF m \in {4, 6, 9, 11} THEN 30 ELSE 31

ValidDate(y, m, d) ==
    /\ y \in 1678..2261
    /\ m \in 1..12
    /\ d \in 1..DaysInMonth(y, m)

\* pd.to_datetime(text, errors='coerce', dayfirst=...) on one cell.  The
\* text forms modelled are D/M/YYYY (slashes) and YYYY-MM-DD; anything else
\* is NaT.  For slashes the preferred reading is day-first or month-first
\* as asked; when that reading is no calendar date and the other one is,
\* the parser either swaps the two fields or gives NaT, depending on the
\* installed pandas/dateutil: swaps says which.
to_datetime(v, dayfirst, swaps) ==
    IF v.k = "ts" THEN v
    ELSE IF v.k # "str" THEN NaT
    ELSE
      LET sl == Split(v.s, "/")
          da == Split(v.s, "-")
          Numeric(p) == \A i \in DOMAIN p : p[i] # << >> /\ AllDigits(p[i])
      IN  IF Len(sl) = 3 /\ Numeric(sl) /\ Len(sl[3]) = 4
          THEN LET a == DigitsVal(sl[1])
                   b == DigitsVal(sl[2])
                   y == DigitsVal(sl[3])
                   d1 == IF dayfirst THEN a ELSE b
                   m1 == IF dayfirst THEN b ELSE a
               IN  IF ValidDate(y, m1, d1) THEN Timestamp(y, m1, d1)
                   ELSE IF swaps /\ ValidDate(y, d1, m1) THEN Timestamp(y, d1, m1)
                   ELSE NaT
          ELSE IF Len(da) = 3 /\ Numeric(da) /\ Len(da[1]) = 4
          THEN LET y == DigitsVal(da[1])
                   m == DigitsVal(da[2])
                   d == DigitsVal(da[3])
               IN  IF ValidDate(y, m, d) THEN Timestamp(y, m, d) ELSE NaT
          ELSE NaT

\* The decimal digits of n, zero-padded to width w.
RECURSIVE ZeroPad(_, _)
ZeroPad(n, w) ==
    IF w = 0 THEN << >>
    ELSE ZeroPad(n \div 10, w - 1) \o << DigitChars[(n % 10) + 1] >>

\* str(Period('M')): YYYY-MM
FormatPeriod(y, m) == ZeroPad(y, 4) \o << "-" >> \o ZeroPad(m, 2)

\* ts.to_period('M'), as to_csv writes it
to_period_M(ts) == Str(FormatPeriod(ts.y, ts.m))

(***************************************************************************)
(* scripts/clean_data.py: main                                             *)
(***************************************************************************)

IsUnnamed(c) == c \in {"Unnamed: 0"}

DropUnnamed(df) ==
    LET keep == { c \in df.cols : ~IsUnnamed(c) }
    IN  Frame(keep, [i \in DOMAIN df.rows |-> [c \in keep |-> df.rows[i][c]]])

CRITICAL == {"Date", "Startup", "Industry", "Location", "Amount"}

StripTitle(v) == IF v.k = "str" THEN Str(Title(Strip(v.s))) ELSE v

ReplaceUnknownTitle(v) ==
    IF v.k # "str" THEN v
    ELSE IF v.s = <<"U", "n", "k", "n", "o", "w", "n">> THEN Str(Title(<<"O", "t", "h", "e", "r">>))
    ELSE Str(Title(v.s))

Outcome(status, log, file) == [status |-> status, log |-> log, file |-> file]

\* Lines 40-46: the YearMonth column, then the cleaned file is written.
clean_write(df, log) ==
    LET YearMonthOf(row) == to_period_M(row["Date"])
    IN  Outcome("ok", log \o << "year_month", "to_csv" >>,
                to_csv(AssignColumn(df, "YearMonth", YearMonthOf)))

\* Line 38: df['Type'] raises KeyError without the column, .str raises
\* AttributeError on a column that was not read as text.
clean_type(df0, df, log) ==
    IF "Type" \notin df.cols THEN Outcome("KeyError", log, NoFile)
    ELSE IF ~IsObjectColumn(df0, "Type") THEN Outcome("AttributeError", log, NoFile)
    ELSE clean_write(MapColumn(df, "Type", ReplaceUnknownTitle),
                     Append(log, "standardize_type"))

\* Line 37
clean_industry(df0, df, log) ==
    IF ~IsObjectColumn(df0, "Industry") THEN Outcome("AttributeError", log, NoFile)
    ELSE clean_type(df0, MapColumn(df, "Industry", StripTitle),
                    Append(log, "standardize_industry"))

\* Line 34: dropna raises KeyError when a column of the subset is missing.
clean_dropna(df0, df, log) ==
    IF ~(CRITICAL \subseteq df.cols) THEN Outcome("KeyError", log, NoFile)
    ELSE clean_industry(df0, dropna(df, CRITICAL), Append(log, "dropna"))

\* Line 32
clean_amounts(df0, df, log) ==
    IF "Amount" \notin df.cols THEN Outcome("KeyError", log, NoFile)
    ELSE clean_dropna(df0, MapColumn(df, "Amount", clean_amount),
                      Append(log, "clean_amounts"))

\* Line 30
clean_dates(df0, swaps) ==
    LET ParseDate(v) == to_datetime(v, TRUE, swaps)
    IN  IF "Date" \notin df0.cols THEN Outcome("KeyError", << >>, NoFile)
        ELSE clean_amounts(df0, MapColumn(df0, "Date", ParseDate), << "parse_dates" >>)

\* main(), from the raw file to the cleaned file: the exit status, the
\* processing steps performed before it, and the file written (NoFile when
\* main raised before to_csv).  df0 is the frame as read, whose column
\* dtypes the later steps depend on.
clean_main(raw, swaps) ==
    IF raw = NoFile THEN Outcome("FileNotFoundError", << >>, NoFile)
    ELSE clean_dates(DropUnnamed(read_csv(raw)), swaps)

(***************************************************************************)
(* Float arithmetic and ordering                                           *)
(***************************************************************************)

MinInt(a, b) == IF a < b THEN a ELSE b

\* a + b
AddF(a, b) ==
    IF a.k = "nan" \/ b.k = "nan" THEN NaN
    ELSE IF a.k = "inf" /\ b.k = "inf" THEN (IF a.neg = b.neg THEN a ELSE NaN)
    ELSE IF a.k = "inf" THEN a
    ELSE IF b.k = "inf" THEN b
    ELSE LET e == MinInt(a.e, b.e)
         IN  Num(a.m * Pow10(a.e - e) + b.m * Pow10(b.e - e), e)

\* a < b (false when either is NaN)
LessF(a, b) ==
    IF a.k = "nan" \/ b.k = "nan" THEN FALSE
    ELSE IF a.k = "inf" THEN a.neg /\ ~(b.k = "inf" /\ b.neg)
    ELSE IF b.k = "inf" THEN ~b.neg
    ELSE LET e == MinInt(a.e, b.e)
         IN  a.m * Pow10(a.e - e) < b.m * Pow10(b.e - e)

Zero == Num(0, 0)

(***************************************************************************)
(* Series: groupby, value_counts, sort_values, nlargest                    *)
(***************************************************************************)

\* A Series is a sequence of entries [key, val]: the index label (text) and
\* the value (a float; a count is the float of that integer).
Entry(key, val) == [key |-> key, val |-> val]

\* The strings of S in ascending order.
RECURSIVE SortStrings(_)
SortStrings(S) ==
    IF S = {} THEN << >>
    ELSE LET m == CHOOSE x \in S : \A y \in S \ {x} : StrLess(x, y)
         IN  << m >> \o SortStrings(S \ {m})

\* The text keys of a column; groupby and value_counts drop missing keys.
KeysOf(rows, c) == { rows[i][c].s : i \in { j \in DOMAIN rows : rows[j][c].k = "str" } }

RECURSIVE SumWhere(_, _, _, _)
SumWhere(rows, c, key, valcol) ==
    IF rows = << >> THEN Zero
    ELSE LET rest == SumWhere(SubSeq(rows, 1, Len(rows) - 1), c, key, valcol)
             last == rows[Len(rows)]
         IN  IF last[c] = Str(key) THEN AddF(rest, last[valcol]) ELSE rest

CountWhere(rows, c, key) == Cardinality({ i \in DOMAIN rows : rows[i][c] = Str(key) })

\* The keys of a column in order of first appearance.
RECURSIVE FirstSeen(_, _)
FirstSeen(rows, c) ==
    IF rows = << >> THEN << >>
    ELSE LET rest == FirstSeen(SubSeq(rows, 1, Len(rows) - 1), c)
             last == rows[Len(rows)][c]
         IN  IF last.k = "str" /\ last.s \notin Range(rest) THEN Append(rest, last.s) ELSE rest

\* The sums with the keys left in order of first appearance (sort=False).
groupby_sum_unsorted(rows, c, valcol) ==
    LET keys == FirstSeen(rows, c)
    IN  [i \in DOMAIN keys |-> Entry(keys[i], SumWhere(rows, c, keys[i], valcol))]

\* df.groupby(c)[valcol].sum(): one entry per key, keys ascending.
groupby_sum(rows, c, valcol) ==
    LET keys == SortStrings(KeysOf(rows, c))
    IN  [i \in DOMAIN keys |-> Entry(keys[i], SumWhere(rows, c, keys[i], valcol))]

\* The counts of a column's values before value_counts sorts them.
counts_unsorted(rows, c) ==
    LET keys == FirstSeen(rows, c)
    IN  [i \in DOMAIN keys |-> Entry(keys[i], Num(CountWhere(rows, c, keys[i]), 0))]

\* series.sort_values(ascending=False) with the default, unstable sort:
\* every arrangement that is descending by value; the order of equal values
\* is whatever the installed numpy's quicksort gives.
RECURSIVE DescFrom(_, _)
DescFrom(series, I) ==
    IF I = {} THEN { << >> }
    ELSE UNION { { << series[i] >> \o t : t \in DescFrom(series, I \ {i}) } :
                 i \in { j \in I : \A h \in I : ~LessF(series[j].val, series[h].val) } }

sort_values_desc(series) == DescFrom(series, DOMAIN series)

\* The descending order of a stable (merge) sort: equal values keep the
\* order they have in the series.
RECURSIVE StableFrom(_, _)
StableFrom(series, I) ==
    IF I = {} THEN << >>
    ELSE LET i == CHOOSE j \in I :
                     \A h \in I \ {j} :
                        \/ LessF(series[h].val, series[j].val)
                        \/ (~LessF(series[j].val, series[h].val) /\ j < h)
         IN  << series[i] >> \o StableFrom(series, I \ {i})

stable_desc(series) == StableFrom(series, DOMAIN series)

Take(s, n) == SubSeq(s, 1, MinInt(n, Len(s)))

\* The whole series sorted, nothing cut off.
nlargest_uncut(series, n) == sort_values_desc(series)

\* series.nlargest(n): when n >= len(series) pandas sorts the whole series
\* (sort_values, unstable); otherwise it selects the n largest with a stable
\* merge sort, equal values in series order.
nlargest(series, n) ==
    IF n >= Len(series) THEN { Take(s, n) : s \in sort_values_desc(series) }
    ELSE { Take(stable_desc(series), n) }

\* series.value_counts(): the counts, sorted descending (sort_values).
value_counts(rows, c) == sort_values_desc(counts_unsorted(rows, c))

(***************************************************************************)
(* scripts/analyze.py: main                                                *)
(***************************************************************************)

TOPN == 10

\* The files of scripts/output that analyze.py writes; each is NoFile or a
\* table, the sequence of its (key, value) rows.
OutputNames ==
    { "funding_by_yearmonth", "top_industries", "top_startups",
      "funding_counts_by_type", "top_locations",
      "top_investors_by_funding", "top_investors_by_rounds" }

EmptyOutputDir == [n \in OutputNames |-> NoFile]

Table(series) == [k |-> "table", rows |-> series]

\* df.assign(InvestorName=df['Investor'].str.split(',')).explode('InvestorName')
\* followed by .str.strip(): one row per piece of the investor text, a single
\* row with a missing name for a missing investor cell.
RECURSIVE explode_investors(_)
explode_investors(rows) ==
    IF rows = << >> THEN << >>
    ELSE LET row == Head(rows)
             inv == row["Investor"]
             pieces == IF inv.k = "str" THEN Split(inv.s, ",") ELSE << >>
             named == [i \in DOMAIN pieces |->
                          [InvestorName |-> Str(Strip(pieces[i])), Amount |-> row["Amount"]]]
             mine == IF inv.k = "str" THEN named
                     ELSE << [InvestorName |-> NaN, Amount |-> row["Amount"]] >>
         IN  mine \o explode_investors(Tail(rows))

Result(status, files) == [status |-> status, files |-> files]

\* Steps 6a and 6b: the investor tables, or the warning when the cleaned
\* CSV has no Investor column (the files in the directory are left alone).
investor_outcomes(df, out) ==
    IF "Investor" \notin df.cols THEN { Result("ok", out) }
    ELSE IF ~IsObjectColumn(df, "Investor") THEN { Result("AttributeError", out) }
    ELSE LET df_in == explode_investors(df.rows)
         IN  { Result("ok", [out EXCEPT !["top_investors_by_funding"] = Table(f),
                                        !["top_investors_by_rounds"] = Table(r)]) :
                 f \in nlargest(groupby_sum(df_in, "InvestorName", "Amount"), TOPN),
                 r \in UNION { nlargest(vc, TOPN) : vc \in value_counts(df_in, "InvestorName") } }

\* main(): every result the run can have, as (exit status, files of the
\* output directory afterwards).  Each table is written as soon as it is
\* computed, so a run that raises leaves the later files as they were.
analyze_main(cleaned, out) ==
    IF cleaned = NoFile THEN { Result("FileNotFoundError", out) }
    ELSE
    LET df == read_csv(cleaned)
        out1 == [out EXCEPT !["funding_by_yearmonth"] =
                               Table(groupby_sum(df.rows, "YearMonth", "Amount"))]
    IN  \* an empty frame's Amount column has dtype object: nlargest raises
        IF df.rows = << >> THEN { Result("TypeError", out1) }
        ELSE UNION {
               investor_outcomes(df,
                   [out1 EXCEPT !["top_industries"] = Table(ind),
                                !["top_startups"] = Table(st),
                                !["funding_counts_by_type"] = Table(ty),
                                !["top_locations"] = Table(loc)]) :
                 ind \in nlargest(groupby_sum(df.rows, "Industry", "Amount"), TOPN),
                 st \in nlargest(groupby_sum(df.rows, "Startup", "Amount"), TOPN),
                 ty \in value_counts(df.rows, "Type"),
                 loc \in UNION { nlargest(vc, TOPN) : vc \in value_counts(df.rows, "Location") } }

(***************************************************************************)
(* app.py: one run of the Streamlit script                                 *)
(***************************************************************************)

NoUpload == [k |-> "noupload"]

REQUIRED_COLS == {"Date", "Startup", "Industry", "Location", "Amount", "Type", "YearMonth"}

\* pd.to_numeric(v, errors="coerce") on one cell
to_numeric(v) ==
    IF v.k \in {"num", "inf", "nan"} THEN v
    ELSE IF v.k = "str" /\ Float(v.s) # ValueError THEN Float(v.s)
    ELSE NaN

\* What section 16 shows: nothing (the script stopped earlier), the warning
\* that the investor CSVs are not there, or the two charts.
NotShown == [k |-> "notshown"]
NotAvailable == [k |-> "warning"]
Charts(fund, rounds) == [k |-> "charts", by_funding |-> fund, by_rounds |-> rounds]

View(status, log, investors) == [status |-> status, log |-> log, investors |-> investors]

\* Section 16: the investor charts when both CSVs exist, the warning otherwise.
app_investors(out) ==
    IF out["top_investors_by_funding"] # NoFile /\ out["top_investors_by_rounds"] # NoFile
    THEN Charts(out["top_investors_by_funding"].rows, out["top_investors_by_rounds"].rows)
    ELSE NotAvailable

\* Sections 5 to 16 with the default widget values (every year, industry
\* and type selected).  strictSlider says whether the installed Streamlit
\* rejects a slider with min = max.
app_sections(df, log, out, strictSlider) ==
    LET years == { df.rows[i]["Date"].y : i \in DOMAIN df.rows }
        months == { << df.rows[i]["Date"].y, df.rows[i]["Date"].m >> : i \in DOMAIN df.rows }
    IN  IF ~(REQUIRED_COLS \subseteq df.cols) THEN View("columnsError", log, NotShown)
        \* section 7: years.min() of no rows raises
        ELSE IF years = {} THEN View("ValueError", log, NotShown)
        ELSE IF strictSlider /\ Cardinality(years) = 1
        THEN View("StreamlitAPIException", log, NotShown)
        \* section 11: Prophet.fit needs two rows of the monthly table
        ELSE IF Cardinality(months) < 2 THEN View("ValueError", log, NotShown)
        ELSE View("rendered", log, app_investors(out))

\* Section 4
app_amounts(df, log, out, strictSlider) ==
    IF "Amount" \notin df.cols THEN View("KeyError", log, NotShown)
    ELSE app_sections(dropna(MapColumn(df, "Amount", to_numeric), {"Date", "Amount"}),
                      log \o << "to_numeric", "dropna" >>, out, strictSlider)

\* Section 3.  swaps is the date parser's handling of a text whose
\* preferred (month-first) reading is no date.
app_dates(df0, out, swaps, strictSlider) ==
    LET ParseDate(v) == to_datetime(v, FALSE, swaps)
        df == MapColumn(df0, "Date", ParseDate)
    IN  IF \A i \in DOMAIN df.rows : IsNA(df.rows[i]["Date"])
        THEN View("dateError", << "parse_dates" >>, NotShown)
        ELSE app_amounts(df, << "parse_dates" >>, out, strictSlider)

\* The script from section 2 to section 16: what it read is the uploaded
\* CSV, or the pipeline's cleaned file when nothing is uploaded.
app_run(upload, cleaned, out, swaps, strictSlider) ==
    LET file == IF upload = NoUpload THEN cleaned ELSE upload
    IN  IF file = NoFile THEN View("FileNotFoundError", << >>, NotShown)
        ELSE IF "Date" \notin file.cols THEN View("KeyError", << >>, NotShown)
        ELSE app_dates(read_csv(file), out, swaps, strictSlider)

(***************************************************************************)
(* The state machine                                                       *)
(***************************************************************************)

VARIABLES
    rawFile,       \* data/startup_cleaned.csv
    cleanedFile,   \* scripts/output/startup_funding.csv
    outputDir,     \* the seven tables of scripts/output
    stage,         \* where the pipeline stands: input, failed, cleaned, analyzed
    cleanRun,      \* clean_data.main's last run: exit status, steps performed
    analyzeStatus, \* analyze.main's last exit status
    appView,       \* app.py's last run: exit status, steps performed, section 16
    runs           \* pipeline runs started so far

vars == << rawFile, cleanedFile, outputDir, stage, cleanRun, analyzeStatus, appView, runs >>

NotRun == [status |-> "notrun", log |-> << >>]
NoView == View("notrun", << >>, NotShown)

\* python scripts/clean_data.py
CleanMain ==
    /\ stage = "input"
    /\ \E swaps \in BOOLEAN :
          LET r == clean_main(rawFile, swaps)
          IN  /\ cleanRun' = [status |-> r.status, log |-> r.log]
              /\ cleanedFile' = IF r.status = "ok" THEN r.file ELSE cleanedFile
              /\ stage' = IF r.status = "ok" THEN "cleaned" ELSE "failed"
    /\ UNCHANGED << rawFile, outputDir, analyzeStatus, appView, runs >>

\* python scripts/analyze.py
AnalyzeMain ==
    /\ stage = "cleaned"
    /\ \E r \in analyze_main(cleanedFile, outputDir) :
          /\ analyzeStatus' = r.status
          /\ outputDir' = r.files
    /\ stage' = "analyzed"
    /\ UNCHANGED << rawFile, cleanedFile, cleanRun, appView, runs >>

\* streamlit run app.py, one run of the script: with an uploaded CSV or
\* with the pipeline's cleaned file.
AppRun(uploads) ==
    /\ stage = "analyzed"
    /\ appView = NoView
    /\ \E upload \in uploads \cup {NoUpload}, swaps \in BOOLEAN, strictSlider \in BOOLEAN :
          appView' = app_run(upload, cleanedFile, outputDir, swaps, strictSlider)
    /\ UNCHANGED << rawFile, cleanedFile, outputDir, stage, cleanRun, analyzeStatus, runs >>

\* A new raw dataset replaces data/startup_cleaned.csv, for the next run.
NewInput(inputs, maxRuns) ==
    /\ stage \in {"analyzed", "failed"}
    /\ runs < maxRuns
    /\ \E file \in inputs : rawFile' = file
    /\ stage' = "input"
    /\ runs' = runs + 1
    /\ cleanRun' = NotRun
    /\ analyzeStatus' = "notrun"
    /\ appView' = NoView
    /\ UNCHANGED << cleanedFile, outputDir >>

\* The state before the first run on the raw file `file`.
Start(file) ==
    /\ rawFile = file
    /\ cleanedFile = NoFile
    /\ outputDir = EmptyOutputDir
    /\ stage = "input"
    /\ cleanRun = NotRun
    /\ analyzeStatus = "notrun"
    /\ appView = NoView
    /\ runs = 1

(***************************************************************************)
(* Input datasets                                                          *)
(***************************************************************************)

RAW_COLS == {"Date", "Startup", "Industry", "Location", "Amount", "Type"}

RawRow(date, startup, industry, location, amount, type, investor) ==
    [Date |-> Str(date), Startup |-> Str(startup), Industry |-> Str(industry),
     Location |-> Str(location), Amount |-> Str(amount), Type |-> Str(type),
     Investor |-> Str(investor)]

\* The CSV file with the columns cols and the rows given; a column the rows
\* do not carry (an index column) holds "0".
RawFile(cols, rows) ==
    Frame(cols, [i \in DOMAIN rows |->
                    [c \in cols |-> IF c \in DOMAIN rows[i] THEN rows[i][c]
                                    ELSE Str(<< "0" >>)]])

SeqsUpTo(S, n) == UNION { [1..len -> S] : len \in 0..n }

\* Rows of the single-run specification: one well-formed row and its
\* variants with one field changed, and a second well-formed row.
BatchRows ==
    { RawRow(<< "0", "5", "/", "0", "1", "/", "2", "0", "2", "0" >>,
           << "A", "c", "m", "e" >>, << "f", "i", "n", "t", "e", "c", "h" >>,
           << "P", "u", "n", "e" >>, << "$", "5", "M" >>,
           << "S", "e", "e", "d" >>, << "X", ",", "Y" >>),
      RawRow(<< "0", "5", "/", "0", "1", "/", "2", "0", "2", "0" >>,
           << "A", "c", "m", "e" >>, << "f", "i", "n", "t", "e", "c", "h" >>,
           << "P", "u", "n", "e" >>, << "-", "5" >>,
           << "S", "e", "e", "d" >>, << "X", ",", "Y" >>),
      RawRow(<< "0", "5", "/", "0", "1", "/", "2", "0", "2", "0" >>,
           << "A", "c", "m", "e" >>, << " ", " " >>,
           << "P", "u", "n", "e" >>, << "$", "5", "M" >>,
           << "S", "e", "e", "d" >>, << "X", ",", "Y" >>),
      RawRow(<< "0", "5", "/", "0", "1", "/", "2", "0", "2", "0" >>,
           << " " >>, << "f", "i", "n", "t", "e", "c", "h" >>,
           << "P", "u", "n", "e" >>, << "$", "5", "M" >>,
           << "S", "e", "e", "d" >>, << "X", ",", "Y" >>),
      RawRow(<< "0", "5", "/", "0", "1", "/", "2", "0", "2", "0" >>,
           << "A", "c", "m", "e" >>, << "f", "i", "n", "t", "e", "c", "h" >>,
           << " " >>, << "$", "5", "M" >>,
           << "S", "e", "e", "d" >>, << "X", ",", "Y" >>),
      RawRow(<< "0", "5", "/", "0", "1", "/", "2", "0", "2", "0" >>,
           << "A", "c", "m", "e" >>, << "f", "i", "n", "t", "e", "c", "h" >>,
           << "P", "u", "n", "e" >>, << "N", "/", "A" >>,
           << "S", "e", "e", "d" >>, << "X", ",", "Y" >>),
      RawRow(<< "3", "2", "/", "0", "1", "/", "2", "0", "2", "0" >>,
           << "A", "c", "m", "e" >>, << "f", "i", "n", "t", "e", "c", "h" >>,
           << "P", "u", "n", "e" >>, << "$", "5", "M" >>,
           << "S", "e", "e", "d" >>, << "X", ",", "Y" >>),
      RawRow(<< "0", "1", "/", "1", "3", "/", "2", "0", "2", "0" >>,
           << "A", "c", "m", "e" >>, << "f", "i", "n", "t", "e", "c", "h" >>,
           << "P", "u", "n", "e" >>, << "$", "5", "M" >>,
           << "S", "e", "e", "d" >>, << "X", ",", "Y" >>),
      RawRow(<< "0", "5", "/", "0", "1", "/", "2", "0", "2", "0" >>,
           << "A", "c", "m", "e" >>, << >>,
           << "P", "u", "n", "e" >>, << "$", "5", "M" >>,
           << "S", "e", "e", "d" >>, << "X", ",", "Y" >>),
      RawRow(<< "1", "5", "/", "1", "0", "/", "2", "0", "1", "9" >>,
           << "B", "e", "t", "a" >>, << "h", "e", "a", "l", "t", "h", " ", "t", "e", "c", "h" >>,
           << "D", "e", "l", "h", "i" >>, << "4", ".", "6", "E", "+", "0", "8" >>,
           << "U", "n", "k", "n", "o", "w", "n" >>, << "Y" >>) }

MaxRows == 2

\* The column sets of the single-run specification: the required columns,
\* these with an unnamed index column, and these with one column missing.
BatchCols ==
    { RAW_COLS, RAW_COLS \cup {"Unnamed: 0"} } \cup { RAW_COLS \ {c} : c \in RAW_COLS }

BatchInputs == { RawFile(cols, rows) : cols \in BatchCols, rows \in SeqsUpTo(BatchRows, MaxRows) }

\* Uploaded CSVs for app.py: two rows in the cleaned file's format, with
\* all the columns, with one column missing, and with unreadable dates.
UPLOAD_COLS == RAW_COLS \cup {"YearMonth"}

UploadRows ==
    << [Date |-> Str(<< "2", "0", "2", "0", "-", "0", "1", "-", "0", "5" >>), Startup |-> Str(<< "A", "c", "m", "e" >>),
        Industry |-> Str(<< "F", "i", "n", "t", "e", "c", "h" >>), Location |-> Str(<< "P", "u", "n", "e" >>),
        Amount |-> Str(<< "5", "0", "0", "0", "0", "0", "0", ".", "0" >>), Type |-> Str(<< "S", "e", "e", "d" >>),
        YearMonth |-> Str(<< "2", "0", "2", "0", "-", "0", "1" >>)],
       [Date |-> Str(<< "2", "0", "1", "9", "-", "1", "0", "-", "1", "5" >>), Startup |-> Str(<< "B", "e", "t", "a" >>),
        Industry |-> Str(<< "H", "e", "a", "l", "t", "h", " ", "T", "e", "c", "h" >>), Location |-> Str(<< "D", "e", "l", "h", "i" >>),
        Amount |-> Str(<< "1", "0", "0", ".", "0" >>), Type |-> Str(<< "O", "t", "h", "e", "r" >>),
        YearMonth |-> Str(<< "2", "0", "1", "9", "-", "1", "0" >>)] >>

BadDateRows ==
    [i \in DOMAIN UploadRows |-> [UploadRows[i] EXCEPT !["Date"] = Str(<< "s", "o", "o", "n" >>)]]

Uploads ==
    { RawFile(cols, UploadRows) :
        cols \in {UPLOAD_COLS} \cup { UPLOAD_COLS \ {c} : c \in {"Date", "Amount", "Startup", "YearMonth"} } }
    \cup { RawFile(UPLOAD_COLS, BadDateRows) }

InitBatch == \E file \in BatchInputs : Start(file)

NextBatch == CleanMain \/ AnalyzeMain \/ AppRun(Uploads)

\* One run of the pipeline, then the dashboard, from every batch input.
SpecBatch == InitBatch /\ [][NextBatch]_vars


\* The investor specification: rows that differ in the amount and in the
\* investor text, in a file that has the optional Investor column.
InvestorTexts ==
    { << "X", ",", "Y" >>,
      << "X", ",", "X" >>,
      << "X", ",", ",", "Y" >>,
      << " ", "X", " ", ",", " ", "Y" >>,
      << " " >>,
      << >>,
      << "Y" >> }

InvestorAmounts == { << "1", "0", "0" >>, << "$", "1", "M" >> }

BaseRow ==
    RawRow(<< "0", "5", "/", "0", "1", "/", "2", "0", "2", "0" >>,
           << "A", "c", "m", "e" >>, << "f", "i", "n", "t", "e", "c", "h" >>,
           << "P", "u", "n", "e" >>, << "$", "5", "M" >>,
           << "S", "e", "e", "d" >>, << "X", ",", "Y" >>)

InvestorRows ==
    { [BaseRow EXCEPT !["Amount"] = Str(a), !["Investor"] = Str(inv)] :
        a \in InvestorAmounts, inv \in InvestorTexts }

MaxInvRows == 2

InvestorInputs ==
    { RawFile(RAW_COLS \cup {"Investor"}, rows) : rows \in SeqsUpTo(InvestorRows, MaxInvRows) }

InitInvestors == \E file \in InvestorInputs : Start(file)

NextPipeline == CleanMain \/ AnalyzeMain

\* One run of clean_data.py and analyze.py from every investor input.
SpecInvestors == InitInvestors /\ [][NextPipeline]_vars

\* The multi-run specification: datasets of two rows in different years,
\* with and without the Investor column; a new dataset may replace the raw
\* file once a run has ended.
RunRows ==
    { RawRow(<< "0", "5", "/", "0", "1", "/", "2", "0", "2", "0" >>,
           << "A", "c", "m", "e" >>, << "f", "i", "n", "t", "e", "c", "h" >>,
           << "P", "u", "n", "e" >>, << "$", "5", "M" >>,
           << "S", "e", "e", "d" >>, << "X", ",", "Y" >>),
      RawRow(<< "1", "5", "/", "1", "0", "/", "2", "0", "1", "9" >>,
           << "A", "c", "m", "e" >>, << "f", "i", "n", "t", "e", "c", "h" >>,
           << "P", "u", "n", "e" >>, << "1", "0", "0" >>,
           << "S", "e", "e", "d" >>, << "Y" >>) }

MaxRunRows == 2

MaxRuns == 2

RunInputs ==
    { RawFile(cols, rows) :
        cols \in { RAW_COLS, RAW_COLS \cup {"Investor"} }, rows \in SeqsUpTo(RunRows, MaxRunRows) }

Init == \E file \in RunInputs : Start(file)

Next == NewInput(RunInputs, MaxRuns) \/ CleanMain \/ AnalyzeMain \/ AppRun(Uploads)

\* Pipeline runs one after another on changing inputs, and the dashboard.
Spec == Init /\ [][Next]_vars

\* The amount specification: one row whose amount text is any text
\* prefix + body + suffix with a body over AmountChars, and whose date
\* is readable or not.
AmountChars == { "1", "5", ",", "." }

MaxBodyLen == 4

AmountTexts ==
    { pre \o body \o suf :
        pre \in { << >>, << "$" >> },
        body \in SeqsUpTo(AmountChars, MaxBodyLen),
        suf \in { << >>, << "M" >> } }

AmountDates == { << "0", "5", "/", "0", "1", "/", "2", "0", "2", "0" >>, << "3", "2", "/", "0", "1", "/", "2", "0", "2", "0" >> }

InitAmount ==
    \E a \in AmountTexts, d \in AmountDates :
        Start(RawFile(RAW_COLS, << [BaseRow EXCEPT !["Amount"] = Str(a), !["Date"] = Str(d)] >>))

NextClean == CleanMain

\* clean_data.py on every one-row file of the amount inputs.
SpecAmount == InitAmount /\ [][NextClean]_vars

\* The period specification: rows that differ in the date and the amount.
PeriodDates ==
    { << "0", "5", "/", "0", "1", "/", "2", "0", "2", "0" >>,
      << "1", "5", "/", "1", "0", "/", "2", "0", "1", "9" >>,
      << "2", "0", "/", "0", "2", "/", "2", "0", "1", "9" >>,
      << "0", "7", "/", "0", "1", "/", "2", "0", "2", "0" >> }

PeriodRows ==
    { [BaseRow EXCEPT !["Amount"] = Str(a), !["Date"] = Str(d)] :
        a \in InvestorAmounts, d \in PeriodDates }

MaxPeriodRows == 3

InitPeriod == \E rows \in SeqsUpTo(PeriodRows, MaxPeriodRows) : Start(RawFile(RAW_COLS, rows))

\* One run of clean_data.py and analyze.py from every period input.
SpecPeriod == InitPeriod /\ [][NextPipeline]_vars

\* The top-N specification: up to MaxTopRows rows, row i in industry
\* number ((i - 1) mod (MaxTopRows - 1)) + 1, the industries named by
\* single letters met in ascending or in descending order; row i has
\* amount i, except that row s has the amount t (which ties two sums).
MaxTopRows == 12

TopIndustry(i, descending) ==
    LET idx == ((i - 1) % (MaxTopRows - 1)) + 1
    IN  << UpperLetters[IF descending THEN MaxTopRows - idx ELSE idx] >>

TopRows(n, descending, s, t) ==
    [i \in 1..n |->
        [BaseRow EXCEPT !["Industry"] = Str(TopIndustry(i, descending)),
                        !["Amount"] = Str(ZeroPad(IF i = s THEN t ELSE i, 2))]]

InitTop ==
    \E n \in 0..MaxTopRows, descending \in BOOLEAN, s \in 1..MaxTopRows, t \in 1..MaxTopRows :
        Start(RawFile(RAW_COLS, TopRows(n, descending, s, t)))

\* One run of clean_data.py and analyze.py from every top-N input.
SpecTop == InitTop /\ [][NextPipeline]_vars

(***************************************************************************)
(* Properties                                                              *)
(***************************************************************************)

Cleaned == cleanedFile # NoFile

CleanedRows == IF Cleaned THEN cleanedFile.rows ELSE << >>

Blank(v) == v.k # "str" \/ Strip(v.s) = << >>

NonNegative(v) == v.k = "num" /\ v.m >= 0

RECURSIVE SumVals(_)
SumVals(series) ==
    IF series = << >> THEN Zero ELSE AddF(Head(series).val, SumVals(Tail(series)))

TableRows(name) == IF outputDir[name] = NoFile THEN << >> ELSE outputDir[name].rows

TableKeys(name) == { TableRows(name)[i].key : i \in DOMAIN TableRows(name) }

\* C1: every record of the cleaned file has a calendar date and a numeric
\* amount >= 0, and no more records are kept than raw rows whose amount
\* normalises to a number >= 0.
C1_CleanedDateAndAmountValid ==
    Cleaned =>
        /\ \A i \in DOMAIN CleanedRows :
              /\ CleanedRows[i]["Date"].k = "ts"
              /\ NonNegative(CleanedRows[i]["Amount"])
        /\ Len(CleanedRows) <=
              Cardinality({ i \in DOMAIN rawFile.rows :
                              NonNegative(clean_amount(ReadCell(rawFile.rows[i]["Amount"]))) })

\* C2: no record of the cleaned file has a Startup, Industry or Location
\* that is empty after trimming, and no rollup counts such a record: the
\* keys of the startup, industry and location tables are not blank and the
\* type counts add up to the number of records with none of the three blank.
C2_BlankFieldsDropped ==
    /\ Cleaned =>
          \A i \in DOMAIN CleanedRows :
             \A c \in {"Startup", "Industry", "Location"} : ~Blank(CleanedRows[i][c])
    /\ (stage = "analyzed" /\ analyzeStatus = "ok") =>
          /\ \A n \in {"top_startups", "top_industries", "top_locations"} :
                \A key \in TableKeys(n) : Strip(key) # << >>
          /\ SumVals(TableRows("funding_counts_by_type")) =
                Num(Cardinality({ i \in DOMAIN CleanedRows :
                                    \A c \in {"Startup", "Industry", "Location"} :
                                        ~Blank(CleanedRows[i][c]) }), 0)

\* C8: a run on an input that lacks a required column ends with an error,
\* and a run that ends with the missing-column error (KeyError, or the
\* dashboard's required-columns message) has performed no processing step
\* before it.
C8_MissingColumnReportedFirst ==
    /\ (stage # "input" /\ ~(RAW_COLS \subseteq rawFile.cols)) => cleanRun.status # "ok"
    /\ cleanRun.status = "KeyError" => cleanRun.log = << >>
    /\ appView.status \in {"KeyError", "columnsError"} => appView.log = << >>

(***************************************************************************)
(* Investor tables (C6, C9, C10)                                           *)
(***************************************************************************)

InvestorsAnalyzed ==
    /\ stage = "analyzed"
    /\ analyzeStatus = "ok"
    /\ "Investor" \in cleanedFile.cols

\* The investors a record lists: the trimmed pieces of its investor text.
Listed(row) ==
    IF row["Investor"].k # "str" THEN {}
    ELSE { Strip(piece) : piece \in Range(Split(row["Investor"].s, ",")) }

\* The cleaned file as analyze.py reads it.
ReadRows == IF Cleaned THEN read_csv(cleanedFile).rows ELSE << >>

AllListed == UNION { Listed(ReadRows[i]) : i \in DOMAIN ReadRows }

RECURSIVE SumListing(_, _)
SumListing(rows, name) ==
    IF rows = << >> THEN Zero
    ELSE IF name \in Listed(Head(rows))
         THEN AddF(Head(rows)["Amount"], SumListing(Tail(rows), name))
         ELSE SumListing(Tail(rows), name)

\* C6: with fewer than ten investors (no truncation), the by-funding table
\* has one entry per listed investor, and its amount is the sum of the
\* entire amounts of the records that list the investor.
C6_FullCreditPerRecord ==
    (InvestorsAnalyzed /\ Cardinality(AllListed) < TOPN) =>
        /\ \A name \in AllListed \ { << >> } : name \in TableKeys("top_investors_by_funding")
        /\ \A i \in DOMAIN TableRows("top_investors_by_funding") :
              LET e == TableRows("top_investors_by_funding")[i]
              IN  e.val = SumListing(ReadRows, e.key)

\* C9: every key of the two investor tables is a non-empty, trimmed name.
C9_InvestorKeysNonEmpty ==
    InvestorsAnalyzed =>
        \A n \in {"top_investors_by_funding", "top_investors_by_rounds"} :
           \A key \in TableKeys(n) : key # << >> /\ Strip(key) = key

\* C10: with fewer than ten investors (no truncation), the Rounds value of
\* an investor is the number of records whose investor list contains it.
C10_OneRoundPerRecord ==
    (InvestorsAnalyzed /\ Cardinality(AllListed) < TOPN) =>
        \A i \in DOMAIN TableRows("top_investors_by_rounds") :
           LET e == TableRows("top_investors_by_rounds")[i]
           IN  e.val = Num(Cardinality({ j \in DOMAIN ReadRows : e.key \in Listed(ReadRows[j]) }), 0)

\* C7: once analyze.py has run on a cleaned file without an Investor
\* column, the investor tables are absent, and a dashboard run that gets to
\* section 16 shows them as not available.
C7_NoStaleInvestorTables ==
    (stage = "analyzed" /\ analyzeStatus = "ok" /\ "Investor" \notin cleanedFile.cols) =>
        /\ outputDir["top_investors_by_funding"] = NoFile
        /\ outputDir["top_investors_by_rounds"] = NoFile
        /\ appView.status = "rendered" => appView.investors = NotAvailable

(***************************************************************************)
(* Amounts in millions (C3)                                                *)
(***************************************************************************)

\* The integer part of a numeral with thousands separators: a first group
\* of one to three digits, then groups of exactly three.
Grouped(s) ==
    LET groups == Split(s, ",")
    IN  /\ \A i \in DOMAIN groups : groups[i] # << >> /\ AllDigits(groups[i])
        /\ Len(groups[1]) <= 3
        /\ \A i \in 2..Len(groups) : Len(groups[i]) = 3

\* An unsigned decimal numeral: digits, or grouped digits, and optionally a
\* point followed by digits.
IsNumber(s) ==
    LET parts == Split(s, ".")
    IN  /\ Len(parts) \in {1, 2}
        /\ (AllDigits(parts[1]) /\ parts[1] # << >>) \/ Grouped(parts[1])
        /\ Len(parts) = 2 => (parts[2] # << >> /\ AllDigits(parts[2]))

\* "$<number>M"
IsDollarMillions(s) ==
    /\ Len(s) >= 3
    /\ Head(s) = "$"
    /\ s[Len(s)] = "M"
    /\ IsNumber(SubSeq(s, 2, Len(s) - 1))

\* number * 1,000,000 for the text "$<number>M"
MillionsOf(s) ==
    LET parts == Split(SubSeq(s, 2, Len(s) - 1), ".")
        whole == RemoveChar(parts[1], ",")
        frac == IF Len(parts) = 2 THEN parts[2] ELSE << >>
    IN  Num(DigitsVal(whole \o frac), 6 - Len(frac))

TheRow == rawFile.rows[1]

PeriodOf(row) == << row["Date"].y, row["Date"].m >>

Periods == { PeriodOf(CleanedRows[i]) : i \in DOMAIN CleanedRows }

Earlier(p, q) == p[1] < q[1] \/ (p[1] = q[1] /\ p[2] < q[2])

\* The period of the records whose YearMonth is the key.
PeriodOfKey(key) ==
    CHOOSE p \in Periods :
        \E i \in DOMAIN CleanedRows :
            CleanedRows[i]["YearMonth"] = Str(key) /\ PeriodOf(CleanedRows[i]) = p

RECURSIVE SumPeriod(_, _)
SumPeriod(rows, p) ==
    IF rows = << >> THEN Zero
    ELSE IF PeriodOf(Head(rows)) = p
         THEN AddF(Head(rows)["Amount"], SumPeriod(Tail(rows), p))
         ELSE SumPeriod(Tail(rows), p)

Permuted(rows, f) == [i \in DOMAIN rows |-> rows[f[i]]]

\* C5: the by-period table has one entry per distinct year-month of the
\* cleaned records, with the sum of that period's amounts, in strictly
\* ascending order of (year, month); and it is the table analyze.py
\* computes from every permutation of the cleaned rows.
C5_ByPeriodChronological ==
    outputDir["funding_by_yearmonth"] # NoFile =>
        LET tab == TableRows("funding_by_yearmonth")
        IN  /\ Len(tab) = Cardinality(Periods)
            /\ \A i \in DOMAIN tab :
                  /\ \E j \in DOMAIN CleanedRows : CleanedRows[j]["YearMonth"] = Str(tab[i].key)
                  /\ \A j \in DOMAIN CleanedRows :
                        (CleanedRows[j]["YearMonth"] = Str(tab[i].key))
                            <=> (PeriodOf(CleanedRows[j]) = PeriodOfKey(tab[i].key))
                  /\ tab[i].val = SumPeriod(CleanedRows, PeriodOfKey(tab[i].key))
            /\ \A i, j \in DOMAIN tab :
                  i < j => Earlier(PeriodOfKey(tab[i].key), PeriodOfKey(tab[j].key))
            /\ \A f \in Permutations(DOMAIN ReadRows) :
                  groupby_sum(Permuted(ReadRows, f), "YearMonth", "Amount") = tab

\* Three periods, met in the input in an order that is not chronological.
C5_Witness ==
    /\ outputDir["funding_by_yearmonth"] # NoFile
    /\ Len(TableRows("funding_by_yearmonth")) = 3
    /\ Len(CleanedRows) = 3
    /\ Earlier(PeriodOf(CleanedRows[3]), PeriodOf(CleanedRows[1]))
    /\ Earlier(PeriodOf(CleanedRows[2]), PeriodOf(CleanedRows[3]))

(***************************************************************************)
(* The by-industry table (C4)                                              *)
(***************************************************************************)

Industries == KeysOf(ReadRows, "Industry")

IndustrySum(key) == SumWhere(ReadRows, "Industry", key, "Amount")

EqualF(a, b) == ~LessF(a, b) /\ ~LessF(b, a)

FirstRowOf(key) ==
    CHOOSE i \in DOMAIN ReadRows :
        /\ ReadRows[i]["Industry"] = Str(key)
        /\ \A j \in 1..(i - 1) : ReadRows[j]["Industry"] # Str(key)

IndustryWritten == stage = "analyzed" /\ analyzeStatus = "ok"

\* The table is the first min(10, number of industries) entries of some
\* descending order of the per-industry sums.
TopOfSums(tab) ==
    /\ Len(tab) = MinInt(TOPN, Cardinality(Industries))
    /\ \A i \in DOMAIN tab : tab[i].key \in Industries /\ tab[i].val = IndustrySum(tab[i].key)
    /\ \A i, j \in DOMAIN tab : i < j => tab[i].key # tab[j].key /\ ~LessF(tab[i].val, tab[j].val)
    /\ \A key \in Industries \ { tab[i].key : i \in DOMAIN tab } :
          \A i \in DOMAIN tab : ~LessF(tab[i].val, IndustrySum(key))

\* Equal sums stand in the order Before, among the entries and against the
\* industries left out.
TiesOrdered(tab, Before(_, _)) ==
    /\ \A i, j \in DOMAIN tab :
          (i < j /\ EqualF(tab[i].val, tab[j].val)) => Before(tab[i].key, tab[j].key)
    /\ \A key \in Industries \ { tab[i].key : i \in DOMAIN tab } :
          \A i \in DOMAIN tab :
             EqualF(tab[i].val, IndustrySum(key)) => Before(tab[i].key, key)

==========================================================================
